---- MODULE Spec2Model ----
(***************************************************************************)
(* Model of the directory tools of gemini_cli:                             *)
(*   src/gemini_cli/tools/directory_tools.py  CreateDirectoryTool, LsTool  *)
(*   src/gemini_cli/tools/tree_tool.py        TreeTool                     *)
(*                                                                         *)
(* A path is a sequence of one-character strings over Alphabet, where "/"  *)
(* stands for os.path.sep.  The filesystem is a set of directories and a   *)
(* set of regular files, each named by its absolute sequence of segment    *)
(* names.  The outcome of subprocess.run is chosen by the host.            *)
(***************************************************************************)
EXTENDS Integers, Sequences, FiniteSets, TLC

VARIABLES
    tool,        \* the tool object the runtime drives in this behaviour
    IS_WINDOWS,  \* module-level flag, computed once at import
    fs,          \* the filesystem: [dirs, files]
    ncalls,      \* number of create_directory.execute calls made so far
    pc,          \* "idle" | "returned" | positions inside CreateDirectoryTool.execute
    last,        \* the record of the current / last execute() call
    prevCreate,  \* summary of the previous create_directory call
    mk,          \* position inside os.makedirs (level being handled)
    otherMade    \* the targets another process created while execute() ran

vars == <<tool, IS_WINDOWS, fs, ncalls, pc, last, prevCreate, mk, otherMade>>

-----------------------------------------------------------------------------
(* Bounds *)

MaxPathLen == 4
MaxCalls == 2
MaxBlank == 1
MaxStderrLen == 2

-----------------------------------------------------------------------------
(* Program constants *)

DEFAULT_TREE_DEPTH == 3
MAX_TREE_DEPTH == 10
LS_MAX_LINES == 100
TREE_MAX_LINES == 200
\* a whitespace-only line of stdout, and the line "... (output truncated)"
BLANK == 0
TRUNC_MARKER == -1

SEP == "/"
Alphabet == {"a", ".", SEP}
DOTDOT == <<".", ".">>
CURDIR == <<".">>

-----------------------------------------------------------------------------
(* Strings: str.split, str.startswith, os.path.normpath, os.path.abspath *)

Seqs(S, n) == UNION {[1..k -> S] : k \in 0..n}

\* str.split(sep): "a//b" gives <<"a", "", "b">>, "" gives <<"">>
RECURSIVE Split(_)
Split(s) ==
    IF s = <<>> THEN << <<>> >>
    ELSE IF Head(s) = SEP THEN << <<>> >> \o Split(Tail(s))
    ELSE LET r == Split(Tail(s)) IN << <<Head(s)>> \o Head(r) >> \o Tail(r)

RECURSIVE JoinSep(_)
JoinSep(comps) ==
    IF comps = <<>> THEN <<>>
    ELSE IF Len(comps) = 1 THEN comps[1]
    ELSE comps[1] \o <<SEP>> \o JoinSep(Tail(comps))

StartsWith(s, p) == Len(s) >= Len(p) /\ SubSeq(s, 1, Len(p)) = p

\* posixpath.normpath: number of leading slashes kept (0, 1 or 2)
InitialSlashes(s) ==
    IF ~StartsWith(s, <<SEP>>) THEN 0
    ELSE IF StartsWith(s, <<SEP, SEP>>) /\ ~StartsWith(s, <<SEP, SEP, SEP>>) THEN 2
    ELSE 1

RECURSIVE NormComps(_, _, _)
NormComps(comps, acc, rooted) ==
    IF comps = <<>> THEN acc
    ELSE LET c == Head(comps) IN
         IF c = <<>> \/ c = CURDIR THEN NormComps(Tail(comps), acc, rooted)
         ELSE IF c # DOTDOT
                 \/ (~rooted /\ acc = <<>>)
                 \/ (acc # <<>> /\ acc[Len(acc)] = DOTDOT)
              THEN NormComps(Tail(comps), Append(acc, c), rooted)
         ELSE IF acc # <<>>
              THEN NormComps(Tail(comps), SubSeq(acc, 1, Len(acc) - 1), rooted)
         ELSE NormComps(Tail(comps), acc, rooted)

normpath(s) ==
    LET k == InitialSlashes(s)
        comps == NormComps(Split(s), <<>>, k > 0)
        body == JoinSep(comps)
        out == (IF k = 2 THEN <<SEP, SEP>> ELSE IF k = 1 THEN <<SEP>> ELSE <<>>) \o body
    IN IF out = <<>> THEN CURDIR ELSE out

\* the working directory of the process: "/a"
CWD == <<SEP, "a">>

\* os.path.expanduser: only a leading "~" is rewritten
expanduser(s) == IF StartsWith(s, <<"~">>) THEN CWD \o Tail(s) ELSE s

\* os.path.abspath: join with the cwd unless absolute, then normpath
abspath(s) ==
    IF StartsWith(s, <<SEP>>) THEN normpath(s) ELSE normpath(CWD \o <<SEP>> \o s)

\* the filesystem name of an absolute normalised path: its non-empty segments
RECURSIVE NonEmpty(_)
NonEmpty(comps) ==
    IF comps = <<>> THEN <<>>
    ELSE IF Head(comps) = <<>> THEN NonEmpty(Tail(comps))
    ELSE <<Head(comps)>> \o NonEmpty(Tail(comps))

Key(absolute) == NonEmpty(Split(absolute))

-----------------------------------------------------------------------------
(* Arguments *)

Paths == Seqs(Alphabet, MaxPathLen)

StrArg(s) == [ty |-> "str", s |-> s]
NoneArg == [ty |-> "none", s |-> <<>>]
\* a truthy value that is not a string, such as 7
IntArg == [ty |-> "int", s |-> <<>>]

PathArgs == {StrArg(s) : s \in Paths} \cup {NoneArg, IntArg}

\* the paths create_directory.execute is driven with: relative and absolute,
\* nested, with ".." at every position, with "." and empty segments, and
\* names that only begin with ".."
DirPaths ==
    { <<>>, <<"a">>, <<"a", SEP>>, <<".", SEP, "a">>, <<"a", SEP, "a">>,
      <<"a", SEP, "a", SEP, "a">>, <<"a", "a">>, <<"a", "a", SEP, "a">>,
      <<SEP>>, <<SEP, "a">>, <<SEP, "a", SEP, "a">>, <<SEP, "a", SEP, "a", "a">>,
      DOTDOT, <<".", ".", SEP, "a">>, <<"a", SEP, ".", ".">>,
      <<"a", SEP, ".", ".", SEP, "a">>, <<SEP, ".", ".">>, <<".", ".", "a">> }

DirPathArgs == {StrArg(s) : s \in DirPaths} \cup {NoneArg, IntArg}

\* the paths tree.execute is driven with (it passes its path through unread)
TreePaths ==
    { <<>>, <<"a">>, DOTDOT, <<".", ".", SEP, "a">>, <<"a", SEP, ".", ".">> }

TreePathArgs == {StrArg(s) : s \in TreePaths} \cup {NoneArg, IntArg}

\* Python truthiness of the path argument
Truthy(p) == (p.ty = "str" /\ p.s # <<>>) \/ p.ty = "int"

DepthInt(v) == [ty |-> "int", v |-> v]
NoneDepth == [ty |-> "none", v |-> 0]
\* a depth that is not a number, such as "5"
StrDepth == [ty |-> "str", v |-> 0]

DepthInts == (-2)..(MAX_TREE_DEPTH + 2)

DepthArgs == {DepthInt(v) : v \in DepthInts} \cup {NoneDepth, StrDepth}

-----------------------------------------------------------------------------
(* Results: the string execute() returns, or the exception it lets escape. *)
(* A returned message is kept as its first word (head), the rest of its    *)
(* literal text (body) and the values formatted into it.                   *)

Msg(head, body, path, code, detail) ==
    [raised |-> FALSE, exc |-> "", head |-> head, body |-> body, path |-> path,
     code |-> code, detail |-> detail, out |-> <<>>]

Output(lines) ==
    [raised |-> FALSE, exc |-> "", head |-> "", body |-> "stdout", path |-> <<>>,
     code |-> 0, detail |-> <<>>, out |-> lines]

Raise(exc) ==
    [raised |-> TRUE, exc |-> exc, head |-> "", body |-> "", path |-> <<>>,
     code |-> 0, detail |-> <<>>, out |-> <<>>]

NoResult == Msg("", "", <<>>, 0, <<>>)

-----------------------------------------------------------------------------
(* The filesystem: os.path.exists, os.path.isdir, os.makedirs *)

Range(f) == {f[i] : i \in DOMAIN f}

exists(f, key) == key \in f.dirs \cup f.files

\* faulty variant: isdir answers as exists does
isdirAsExists(f, key) == key \in f.dirs \cup f.files

isdir(f, key) == key \in f.dirs


\* faulty variant: makedirs called without exist_ok
MkdirNeverTolerated(f, name) == FALSE

\* os.makedirs(name, exist_ok=True) lets a failed mkdir of a name pass when
\* the name is a directory ("if not exist_ok or not path.isdir(name): raise")
MkdirTolerated(f, name) == isdir(f, name)

\* os.mkdir(name) for each missing level of key, top down, as os.makedirs
\* does; budget is the number of mkdir calls the host lets succeed before it
\* raises OSError (permissions, quota, ...).  A level that is a regular file
\* makes mkdir raise; an ancestor that is a directory is skipped, and so is
\* the leaf when the failed mkdir is tolerated.
RECURSIVE MakedirsFrom(_, _, _, _)
MakedirsFrom(f, key, i, budget) ==
    IF i > Len(key) THEN [fs |-> f, err |-> FALSE]
    ELSE LET p == SubSeq(key, 1, i) IN
         IF p \in f.dirs
         THEN IF i = Len(key) /\ ~MkdirTolerated(f, p)
              THEN [fs |-> f, err |-> TRUE]
              ELSE MakedirsFrom(f, key, i + 1, budget)
         ELSE IF p \in f.files \/ budget = 0
         THEN [fs |-> f, err |-> TRUE]
         ELSE MakedirsFrom([f EXCEPT !.dirs = @ \cup {p}], key, i + 1, budget - 1)

\* faulty variant: the leaf itself is not made
makedirsParentsOnly(f, key, budget) ==
    MakedirsFrom(f, SubSeq(key, 1, Len(key) - 1), 1, budget)

makedirs(f, key, budget) == MakedirsFrom(f, key, 1, budget)

-----------------------------------------------------------------------------
(* CreateDirectoryTool.execute *)

\* ".." in dir_path.split(os.path.sep)
HasParentSegment(s) == DOTDOT \in Range(Split(s))

InvalidPathMsg(p) ==
    Msg("Error", ": Invalid path '%s'. Cannot access parent directories.", p, 0, <<>>)
AlreadyExistsMsg(p) == Msg("Directory", " already exists: %s", p, 0, <<>>)
NotADirectoryMsg(p) ==
    Msg("Error", ": Path exists but is not a directory: %s", p, 0, <<>>)
CreatedMsg(p) == Msg("Successfully", " created directory: %s", p, 0, <<>>)
CreateErrorMsg == Msg("Error", " creating directory: %s", <<>>, 0, <<>>)

\* the target of a string path that passed the guard
CreateTarget(s) == Key(abspath(expanduser(s)))

\* What one call does: the result, the filesystem it leaves and the
\* filesystem calls it made, in order.
CreateDirectoryExecute(f, dir_path, budget) ==
    IF dir_path.ty # "str"
    THEN \* dir_path.split raises AttributeError, caught by "except Exception"
         [result |-> CreateErrorMsg, fs |-> f, syscalls |-> <<>>, target |-> <<>>]
    ELSE IF HasParentSegment(dir_path.s)
    THEN [result |-> InvalidPathMsg(dir_path.s), fs |-> f, syscalls |-> <<>>,
          target |-> <<>>]
    ELSE LET t == CreateTarget(dir_path.s) IN
         IF exists(f, t)
         THEN IF isdir(f, t)
              THEN [result |-> AlreadyExistsMsg(dir_path.s), fs |-> f,
                    syscalls |-> <<"exists", "isdir">>, target |-> t]
              ELSE [result |-> NotADirectoryMsg(dir_path.s), fs |-> f,
                    syscalls |-> <<"exists", "isdir">>, target |-> t]
         ELSE LET m == makedirs(f, t, budget) IN
              [result |-> IF m.err THEN CreateErrorMsg ELSE CreatedMsg(dir_path.s),
               fs |-> m.fs, syscalls |-> <<"exists", "makedirs">>, target |-> t]

-----------------------------------------------------------------------------
(* The external process: subprocess.run(command, capture_output, text,    *)
(* check=False, timeout=15, shell=IS_WINDOWS)                              *)

\* stdout is a sequence of lines; line k of a listing is the number k, the
\* second line of a listing is empty, and whitespace-only lines may precede
\* and follow the listing
Stdout(lead, n, trail) ==
    [i \in 1..(lead + n + trail) |->
        IF i <= lead \/ i > lead + n \/ i - lead = 2 THEN BLANK ELSE i - lead]

\* the line counts around the two budgets
StdoutLens ==
    {0, 1, 3} \cup {LS_MAX_LINES + d : d \in (-1)..2} \cup {TREE_MAX_LINES + d : d \in (-1)..2}

Stdouts ==
    {Stdout(lead, n, trail) : lead \in 0..MaxBlank, n \in StdoutLens, trail \in 0..MaxBlank}

\* stderr is a sequence of fragments
WS == "\n"
StderrTokens ==
    {"command not found", "No such file or directory", "cannot find the path",
     "Permission denied", WS}

Stderrs == Seqs(StderrTokens, MaxStderrLen)

\* str.lower
Lower(tok) ==
    CASE tok = "No such file or directory" -> "no such file or directory"
      [] tok = "Permission denied" -> "permission denied"
      [] OTHER -> tok

LowerAll(s) == [i \in DOMAIN s |-> Lower(s[i])]

\* marker in text
Contains(s, marker) == \E i \in DOMAIN s : s[i] = marker

\* str.strip on stdout (whole blank lines) and on stderr (whitespace fragments)
RECURSIVE LStrip(_, _)
LStrip(s, ws) == IF s # <<>> /\ Head(s) = ws THEN LStrip(Tail(s), ws) ELSE s

RECURSIVE RStrip(_, _)
RStrip(s, ws) ==
    IF s # <<>> /\ s[Len(s)] = ws THEN RStrip(SubSeq(s, 1, Len(s) - 1), ws) ELSE s

strip(s, ws) == RStrip(LStrip(s, ws), ws)

NonZeroCodes == {1, 127}

NoRun == [exc |-> "none", rc |-> 0, stdout |-> <<>>, stderr |-> <<>>]

Completed(rc, out, err) == [exc |-> "none", rc |-> rc, stdout |-> out, stderr |-> err]
Raised(exc) == [exc |-> exc, rc |-> 0, stdout |-> <<>>, stderr |-> <<>>]

\* FileNotFoundError: the executable cannot be located; TimeoutExpired: the
\* 15 seconds elapsed; OSError: any other exception of subprocess.run
RunOutcomes ==
    {Raised(e) : e \in {"FileNotFoundError", "TimeoutExpired", "OSError"}}
    \cup {Completed(0, out, <<>>) : out \in Stdouts}
    \cup {Completed(rc, <<>>, err) : rc \in NonZeroCodes, err \in Stderrs}

Command(exe, flags, depth, target, shell) ==
    [exe |-> exe, flags |-> flags, depth |-> depth, target |-> target, shell |-> shell]

-----------------------------------------------------------------------------
(* Output truncation, as both tools write it *)


\* faulty variant: the comparison with the budget is >= instead of >
TruncateAtBudget(lines, maxLines) ==
    IF Len(lines) >= maxLines
    THEN SubSeq(lines, 1, maxLines) \o <<TRUNC_MARKER>>
    ELSE lines

Truncate(lines, maxLines) ==
    IF Len(lines) > maxLines
    THEN SubSeq(lines, 1, maxLines) \o <<TRUNC_MARKER>>
    ELSE lines

Sanitize(stdout, maxLines) == Truncate(strip(stdout, BLANK), maxLines)

ErrorDetail(stderr) == IF stderr # <<>> THEN strip(stderr, WS) ELSE <<"(No stderr)">>

CommandNotFoundMsg(cmd) ==
    Msg("Error", ": '%s' command not found. Please ensure it is installed and in the system's PATH.",
        <<>>, 0, <<cmd>>)

-----------------------------------------------------------------------------
(* LsTool.execute *)

LsCommand(win, target) ==
    IF win THEN Command("dir", <<"/a">>, <<>>, target, TRUE)
    ELSE Command("ls", <<"-lA">>, <<>>, target, FALSE)

LsDirNotFoundMsg(target) == Msg("Error", ": Directory not found: '%s'", target, 0, <<>>)
LsGenericMsg(rc, stderr) ==
    Msg("Error", " executing directory listing command (Code: %d): %s", <<>>, rc,
        ErrorDetail(stderr))
LsTimeoutMsg(target) ==
    Msg("Error", ": Directory listing timed out for path '%s'.", target, 0, <<>>)
LsUnexpectedMsg ==
    Msg("An", " unexpected error occurred while executing directory listing: %s",
        <<>>, 0, <<>>)


\* faulty variant: stderr is searched without lower()
LsNonZeroCaseSensitive(target, run) ==
    IF Contains(run.stderr, "no such file or directory")
       \/ Contains(run.stderr, "cannot find the path")
    THEN LsDirNotFoundMsg(target)
    ELSE LsGenericMsg(run.rc, run.stderr)

\* the classification of a process that ran and exited non-zero
LsNonZero(target, run) ==
    LET stderr_lower == LowerAll(run.stderr) IN
    IF Contains(stderr_lower, "no such file or directory")
       \/ Contains(stderr_lower, "cannot find the path")
    THEN LsDirNotFoundMsg(target)
    ELSE LsGenericMsg(run.rc, run.stderr)

\* the try block and its handlers
LsFormat(win, target, run) ==
    CASE run.exc = "FileNotFoundError" -> CommandNotFoundMsg(IF win THEN "dir" ELSE "ls")
      [] run.exc = "TimeoutExpired" -> LsTimeoutMsg(target)
      [] run.exc = "OSError" -> LsUnexpectedMsg
      [] OTHER -> IF run.rc = 0 THEN Output(Sanitize(run.stdout, LS_MAX_LINES))
                  ELSE LsNonZero(target, run)


\* faulty variant: only the path ".." itself is refused
LsRejectsExact(target) == target = DOTDOT

\* target_path.startswith("..")
LsRejects(target) == StartsWith(target, DOTDOT)

LsExecute(win, path, run) ==
    IF Truthy(path) /\ path.ty # "str"
    THEN \* os.path.normpath raises TypeError, outside the try block
         [result |-> Raise("TypeError"), spawned |-> <<>>, run |-> NoRun]
    ELSE LET target == IF Truthy(path) THEN normpath(path.s) ELSE CURDIR IN
         IF Truthy(path) /\ LsRejects(target)
         THEN [result |-> InvalidPathMsg(path.s), spawned |-> <<>>, run |-> NoRun]
         ELSE [result |-> LsFormat(win, target, run),
               spawned |-> <<LsCommand(win, target)>>, run |-> run]

-----------------------------------------------------------------------------
(* TreeTool.execute *)

Min2(a, b) == IF a < b THEN a ELSE b
Max2(a, b) == IF a > b THEN a ELSE b


\* faulty variant: the lower clamp is forgotten
ClampDepthUpperOnly(depth) == Min2(depth, MAX_TREE_DEPTH)

\* max(1, min(depth, MAX_TREE_DEPTH))
ClampDepth(depth) == Max2(1, Min2(depth, MAX_TREE_DEPTH))

DepthLimit(depth) ==
    IF depth.ty = "none" THEN DEFAULT_TREE_DEPTH ELSE ClampDepth(depth.v)

TreeCommand(win, depth_limit, target) ==
    IF win THEN Command("tree", <<>>, <<>>, target, TRUE)
    ELSE Command("tree", <<"-L">>, <<depth_limit>>, target, FALSE)

TreeGenericMsg(rc, stderr) ==
    Msg("Error", " executing tree command (Code: %d): %s", <<>>, rc, ErrorDetail(stderr))
TreeTimeoutMsg(target) ==
    Msg("Error", ": Tree command timed out for path '%s'. The directory might be too large or complex.",
        target, 0, <<>>)
TreeUnexpectedMsg ==
    Msg("An", " unexpected error occurred while executing tree: %s", <<>>, 0, <<>>)
TreeWindowsHintMsg ==
    Msg("Error", ": 'tree' command not found. This is a built-in Windows command, so this may indicate a system issue.",
        <<>>, 0, <<"tree">>)
TreeInstallHintMsg ==
    Msg("Error", ": 'tree' command not found. Please install it using your package manager (e.g., 'apt-get install tree' on Debian/Ubuntu).",
        <<>>, 0, <<"tree">>)

\* the classification of a process that ran and exited non-zero
TreeNonZero(target, run) ==
    IF run.rc = 127 \/ Contains(LowerAll(run.stderr), "command not found")
    THEN CommandNotFoundMsg("tree")
    ELSE TreeGenericMsg(run.rc, run.stderr)


\* faulty variant: the two hints are swapped
TreeNotFoundSwapped(win) == IF win THEN TreeInstallHintMsg ELSE TreeWindowsHintMsg

\* the handler of FileNotFoundError
TreeNotFound(win) == IF win THEN TreeWindowsHintMsg ELSE TreeInstallHintMsg

\* the try block and its handlers
TreeFormat(win, target, run) ==
    CASE run.exc = "FileNotFoundError" -> TreeNotFound(win)
      [] run.exc = "TimeoutExpired" -> TreeTimeoutMsg(target)
      [] run.exc = "OSError" -> TreeUnexpectedMsg
      [] OTHER -> IF run.rc = 0 THEN Output(Sanitize(run.stdout, TREE_MAX_LINES))
                  ELSE TreeNonZero(target, run)

TreeExecute(win, path, depth, run) ==
    IF depth.ty = "str"
    THEN \* min(depth, MAX_TREE_DEPTH) raises TypeError, outside the try block
         [result |-> Raise("TypeError"), spawned |-> <<>>, run |-> NoRun]
    ELSE IF Truthy(path) /\ path.ty # "str"
    THEN \* ' '.join(command) raises TypeError, outside the try block
         [result |-> Raise("TypeError"), spawned |-> <<>>, run |-> NoRun]
    ELSE LET target == IF Truthy(path) THEN path.s ELSE CURDIR IN
         [result |-> TreeFormat(win, target, run),
          spawned |-> <<TreeCommand(win, DepthLimit(depth), target)>>, run |-> run]

-----------------------------------------------------------------------------
(* Call records *)

NoFs == [dirs |-> {}, files |-> {}]

Call(t, path, depth, syscalls, spawned, run, result, before, target) ==
    [tool |-> t, path |-> path, depth |-> depth, syscalls |-> syscalls,
     spawned |-> spawned, run |-> run, result |-> result, fsBefore |-> before,
     target |-> target]

NoCall == Call("none", NoneArg, NoneDepth, <<>>, <<>>, NoRun, NoResult, NoFs, <<>>)

NoPrev == [called |-> FALSE, path |-> NoneArg, result |-> NoResult]

-----------------------------------------------------------------------------
(* Initial states *)

\* the root and the working directory "/a" exist, and a regular file "/a/aa"
InitFs ==
    [dirs |-> { <<>>, Key(CWD) }, files |-> { Key(CWD) \o << <<"a", "a">> >> }]

\* the number of mkdir calls the host lets succeed
Budgets == 0..3

\* The three tools are separate objects that share no state (ls and tree keep
\* none, and only create_directory touches the filesystem), so a behaviour
\* follows the calls made on one of them.
Init ==
    /\ tool \in {"create_directory", "ls", "tree"}
    /\ IS_WINDOWS \in BOOLEAN
    /\ fs = InitFs
    /\ ncalls = 0
    /\ pc = "idle"
    /\ last = NoCall
    /\ prevCreate = NoPrev
    /\ mk = 0
    /\ otherMade = {}

-----------------------------------------------------------------------------
(* Actions *)

\* create_directory.execute(dir_path), start to return
CreateDirectory ==
    /\ tool = "create_directory"
    /\ pc = "idle"
    /\ ncalls < MaxCalls
    /\ \E dir_path \in DirPathArgs, budget \in Budgets :
          LET r == CreateDirectoryExecute(fs, dir_path, budget) IN
          /\ fs' = r.fs
          /\ last' = Call("create_directory", dir_path, NoneDepth, r.syscalls,
                          <<>>, NoRun, r.result, fs, r.target)
    /\ ncalls' = ncalls + 1
    /\ pc' = "returned"
    /\ UNCHANGED <<tool, IS_WINDOWS, prevCreate, mk, otherMade>>

\* ls.execute(path), start to return
Ls ==
    /\ tool = "ls"
    /\ pc = "idle"
    /\ \E path \in PathArgs, run \in RunOutcomes :
          LET r == LsExecute(IS_WINDOWS, path, run) IN
          last' = Call("ls", path, NoneDepth, <<>>, r.spawned, r.run, r.result,
                       fs, <<>>)
    /\ pc' = "returned"
    /\ UNCHANGED <<tool, IS_WINDOWS, fs, ncalls, prevCreate, mk, otherMade>>

\* tree.execute(path, depth), start to return
Tree ==
    /\ tool = "tree"
    /\ pc = "idle"
    /\ \E path \in TreePathArgs, depth \in DepthArgs, run \in RunOutcomes :
          LET r == TreeExecute(IS_WINDOWS, path, depth, run) IN
          last' = Call("tree", path, depth, <<>>, r.spawned, r.run, r.result,
                       fs, <<>>)
    /\ pc' = "returned"
    /\ UNCHANGED <<tool, IS_WINDOWS, fs, ncalls, prevCreate, mk, otherMade>>

\* the runtime takes the returned string; the tool is ready for the next call
Return ==
    /\ pc = "returned"
    /\ pc' = "idle"
    /\ prevCreate' = IF last.tool = "create_directory"
                     THEN [called |-> TRUE, path |-> last.path, result |-> last.result]
                     ELSE prevCreate
    /\ last' = NoCall
    /\ UNCHANGED <<tool, IS_WINDOWS, fs, ncalls, mk, otherMade>>

-----------------------------------------------------------------------------
(* create_directory.execute step by step, beside another process that      *)
(* creates directories on the same path.  pc is the position in execute:   *)
(* "exists" before os.path.exists, "isdir" before os.path.isdir, "up"      *)
(* inside os.makedirs before it tests its parent, "down" before os.mkdir   *)
(* of level mk.                                                            *)

Prefix(key, i) == SubSeq(key, 1, i)

WithSyscall(c, name) == [c EXCEPT !.syscalls = Append(@, name)]
WithResult(c, r) == [c EXCEPT !.result = r]

\* the guard, and the computation of target_path
RaceCall ==
    /\ tool = "create_directory"
    /\ pc = "idle"
    /\ \E dir_path \in DirPathArgs :
          IF dir_path.ty # "str"
          THEN /\ last' = Call("create_directory", dir_path, NoneDepth, <<>>, <<>>,
                               NoRun, CreateErrorMsg, fs, <<>>)
               /\ pc' = "returned"
          ELSE IF HasParentSegment(dir_path.s)
          THEN /\ last' = Call("create_directory", dir_path, NoneDepth, <<>>, <<>>,
                               NoRun, InvalidPathMsg(dir_path.s), fs, <<>>)
               /\ pc' = "returned"
          ELSE /\ last' = Call("create_directory", dir_path, NoneDepth, <<>>, <<>>,
                               NoRun, NoResult, fs, CreateTarget(dir_path.s))
               /\ pc' = "exists"
    /\ ncalls' = ncalls + 1
    /\ UNCHANGED <<tool, IS_WINDOWS, fs, prevCreate, mk, otherMade>>

\* if os.path.exists(target_path)
RaceExists ==
    /\ pc = "exists"
    /\ last' = WithSyscall(last, "exists")
    /\ IF exists(fs, last.target)
       THEN pc' = "isdir" /\ mk' = mk
       ELSE pc' = "up" /\ mk' = Len(last.target)
    /\ UNCHANGED <<tool, IS_WINDOWS, fs, ncalls, prevCreate, otherMade>>

\* if os.path.isdir(target_path)
RaceIsdir ==
    /\ pc = "isdir"
    /\ last' = WithResult(WithSyscall(last, "isdir"),
                          IF isdir(fs, last.target)
                          THEN AlreadyExistsMsg(last.path.s)
                          ELSE NotADirectoryMsg(last.path.s))
    /\ pc' = "returned"
    /\ UNCHANGED <<tool, IS_WINDOWS, fs, ncalls, prevCreate, mk, otherMade>>

\* os.makedirs(level mk): "if head and tail and not path.exists(head)"
\* recurses into the parent, else goes on to its own mkdir
RaceMakedirsUp ==
    /\ pc = "up"
    /\ IF mk > 1 /\ ~exists(fs, Prefix(last.target, mk - 1))
       THEN pc' = "up" /\ mk' = mk - 1
       ELSE pc' = "down" /\ mk' = mk
    /\ UNCHANGED <<tool, IS_WINDOWS, fs, ncalls, last, prevCreate, otherMade>>

\* os.mkdir(level mk) and the handling of its failure: in the makedirs call
\* of that level a failure is let pass when MkdirTolerated; a FileExistsError
\* of an ancestor level is passed over by the calling level ("except
\* FileExistsError: pass"); any other failure reaches execute's handler.
RaceMkdir ==
    /\ pc = "down"
    /\ LET name == Prefix(last.target, mk)
           leaf == mk = Len(last.target)
           parentOk == isdir(fs, Prefix(last.target, mk - 1))
           fails == exists(fs, name) \/ ~parentOk
           passed == MkdirTolerated(fs, name) \/ (~leaf /\ parentOk /\ exists(fs, name))
       IN /\ fs' = IF fails THEN fs ELSE [fs EXCEPT !.dirs = @ \cup {name}]
          /\ IF fails /\ ~passed
             THEN /\ last' = WithResult(WithSyscall(last, "makedirs"), CreateErrorMsg)
                  /\ pc' = "returned" /\ mk' = mk
             ELSE IF leaf
             THEN /\ last' = WithResult(WithSyscall(last, "makedirs"),
                                        CreatedMsg(last.path.s))
                  /\ pc' = "returned" /\ mk' = mk
             ELSE /\ last' = last
                  /\ pc' = "down" /\ mk' = mk + 1
    /\ UNCHANGED <<tool, IS_WINDOWS, ncalls, prevCreate, otherMade>>

\* another process makes one missing directory on the target's path
OtherMkdir ==
    /\ pc \in {"exists", "isdir", "up", "down"}
    /\ \E i \in 1..Len(last.target) :
          LET name == Prefix(last.target, i) IN
          /\ ~exists(fs, name)
          /\ isdir(fs, Prefix(last.target, i - 1))
          /\ fs' = [fs EXCEPT !.dirs = @ \cup {name}]
          /\ otherMade' = otherMade \cup {name}
    /\ UNCHANGED <<tool, IS_WINDOWS, ncalls, pc, last, prevCreate, mk>>

RaceNext ==
    RaceCall \/ RaceExists \/ RaceIsdir \/ RaceMakedirsUp \/ RaceMkdir \/ OtherMkdir

SpecRace == Init /\ [][RaceNext]_vars

-----------------------------------------------------------------------------

Next == CreateDirectory \/ Ls \/ Tree \/ Return

Spec == Init /\ [][Next]_vars

-----------------------------------------------------------------------------
(* Vocabulary of the properties *)

Returned == pc = "returned"
OfTool(name) == Returned /\ last.tool = name
Spawned == last.spawned # <<>>
ErrorString(r) == ~r.raised /\ r.head = "Error"
StrPath == last.path.ty = "str"

\* a segment that names something (not empty, not ".", not "..")
IsName(c) == c \notin { <<>>, CURDIR, DOTDOT }

\* a relative path that, read left to right, at some point has gone up more
\* often than down: it leaves the directory it starts in
Climbs(s) ==
    LET segs == Split(s) IN
    /\ (s = <<>> \/ s[1] # SEP)
    /\ \E k \in 1..Len(segs) :
          Cardinality({i \in 1..k : segs[i] = DOTDOT})
             > Cardinality({i \in 1..k : IsName(segs[i])})

\* the lines of a text between its first and its last non-blank line
FirstText(lines) ==
    CHOOSE i \in 1..Len(lines) :
        lines[i] # BLANK /\ \A j \in 1..(i - 1) : lines[j] = BLANK
TrailingBlanks(lines) ==
    CHOOSE k \in 0..(Len(lines) - 1) :
        lines[Len(lines) - k] # BLANK /\ \A j \in 0..(k - 1) : lines[Len(lines) - j] = BLANK
Stripped(lines) ==
    IF \A i \in 1..Len(lines) : lines[i] = BLANK THEN <<>>
    ELSE SubSeq(lines, FirstText(lines), Len(lines) - TrailingBlanks(lines))

\* the budget of the tool of the last call
Budget == IF last.tool = "ls" THEN 100 ELSE 200

RanToZero == Spawned /\ last.run.exc = "none" /\ last.run.rc = 0
RanToNonZero == Spawned /\ last.run.exc = "none" /\ last.run.rc # 0

\* the stderr fragments that hold each marker, in any letter case
SaysCommandNotFound(stderr) == \E i \in DOMAIN stderr : stderr[i] = "command not found"
SaysPathNotFound(stderr) ==
    \E i \in DOMAIN stderr :
        stderr[i] \in {"No such file or directory", "cannot find the path"}

-----------------------------------------------------------------------------
(* C1 *)

\* C1, as stated: for every path with a ".." segment at any position, both
\* create_directory.execute and ls.execute return an error string, before
\* any filesystem call and before any command is spawned.
C1_AnyParentSegmentRefused ==
    (Returned /\ last.tool \in {"create_directory", "ls"} /\ StrPath
       /\ HasParentSegment(last.path.s))
    => /\ ErrorString(last.result)
       /\ last.syscalls = <<>>
       /\ ~Spawned

\* C1, amended: create_directory.execute refuses every path with a ".."
\* segment before any filesystem call and leaves the filesystem as it was;
\* ls.execute refuses, before spawning, every relative path that climbs out
\* of its starting directory; a ".." that a preceding name cancels or that
\* follows the root is normalised away, and what ls spawns never has a ".."
\* segment in its target.
C1_ParentSegmentGuards ==
    /\ (OfTool("create_directory") /\ StrPath /\ HasParentSegment(last.path.s))
       => /\ last.result = InvalidPathMsg(last.path.s)
          /\ last.syscalls = <<>>
          /\ fs = last.fsBefore
    /\ (OfTool("ls") /\ StrPath /\ Climbs(last.path.s))
       => /\ last.result = InvalidPathMsg(last.path.s)
          /\ ~Spawned
    /\ (OfTool("ls") /\ Spawned)
       => \A i \in DOMAIN Split(last.spawned[1].target) :
             Split(last.spawned[1].target)[i] # DOTDOT

\* ls refused a path whose ".." comes after another segment
C1_Witness ==
    /\ OfTool("ls") /\ StrPath
    /\ Split(last.path.s)[1] # DOTDOT
    /\ Climbs(last.path.s)
    /\ ErrorString(last.result)
    /\ ~Spawned

-----------------------------------------------------------------------------
(* C2 *)

\* what counts as the operation having failed
Failed ==
    IF last.tool = "create_directory"
    THEN last.result.raised \/ ~isdir(fs, last.target) \/ last.syscalls = <<>>
    ELSE ~RanToZero

\* C2: every execute() returns a string and never raises, and the string of
\* a failed operation begins with "Error".
C2_ReturnsErrorPrefixedString ==
    Returned => /\ ~last.result.raised
                /\ Failed => last.result.head = "Error"

-----------------------------------------------------------------------------
(* C3 *)

\* the previous call created the directory and this call repeats its path
RepeatsCreated ==
    /\ OfTool("create_directory")
    /\ prevCreate.called
    /\ prevCreate.path = last.path
    /\ StrPath
    /\ prevCreate.result = CreatedMsg(last.path.s)

\* C3: a second create_directory.execute(p) after a first that succeeded
\* returns "Directory already exists", not an error, and leaves the
\* filesystem as the first call left it.
C3_CreateIdempotent ==
    RepeatsCreated
    => /\ last.result = AlreadyExistsMsg(last.path.s)
       /\ ~ErrorString(last.result)
       /\ fs = last.fsBefore

\* a nested path was created and then asked for again
C3_Witness ==
    /\ RepeatsCreated
    /\ Len(last.target) > Len(Key(CWD)) + 1
    /\ last.result = AlreadyExistsMsg(last.path.s)

-----------------------------------------------------------------------------
(* C4 *)

TargetWasFile ==
    /\ OfTool("create_directory") /\ StrPath
    /\ ~HasParentSegment(last.path.s)
    /\ Key(abspath(last.path.s)) \in last.fsBefore.files

\* C4: when the target exists and is not a directory, the call returns the
\* "Path exists but is not a directory" error, which is neither the
\* already-exists message nor the creation error, makedirs is not called
\* and the filesystem is unchanged.
C4_NotADirectoryNoMutation ==
    TargetWasFile
    => /\ last.result = NotADirectoryMsg(last.path.s)
       /\ last.result # AlreadyExistsMsg(last.path.s)
       /\ last.result # CreateErrorMsg
       /\ \A i \in DOMAIN last.syscalls : last.syscalls[i] # "makedirs"
       /\ fs = last.fsBefore

C4_Witness ==
    /\ TargetWasFile
    /\ last.result.body = ": Path exists but is not a directory: %s"
    /\ fs.files # {}

-----------------------------------------------------------------------------
(* C5 *)

\* C5: on exit code 0 the tool returns the stripped stdout unchanged when
\* it has at most Budget lines, else its first Budget lines and one marker
\* line; the marker is there exactly when the stripped output was longer.
C5_TruncatesToBudget ==
    (Returned /\ last.tool \in {"ls", "tree"} /\ RanToZero)
    => LET text == Stripped(last.run.stdout)
           out == last.result.out
       IN /\ ~last.result.raised
          /\ Len(text) <= Budget => out = text
          /\ Len(text) > Budget
             => /\ Len(out) = Budget + 1
                /\ SubSeq(out, 1, Budget) = SubSeq(text, 1, Budget)
                /\ out[Budget + 1] = TRUNC_MARKER
          /\ Len(out) <= Budget + 1
          /\ (\E i \in DOMAIN out : out[i] = TRUNC_MARKER) <=> Len(text) > Budget

\* ls cut a listing that, stripped, was longer than 100 lines
C5_Witness ==
    /\ OfTool("ls") /\ RanToZero
    /\ Len(last.run.stdout) > Len(Stripped(last.run.stdout))
    /\ Len(Stripped(last.run.stdout)) > 100
    /\ Len(last.result.out) = 101
    /\ last.result.out[101] = TRUNC_MARKER

-----------------------------------------------------------------------------
(* C6 *)

\* the depth the command should carry
WantedDepth ==
    IF last.depth.ty = "none" THEN 3
    ELSE IF last.depth.v < 1 THEN 1
    ELSE IF last.depth.v > 10 THEN 10
    ELSE last.depth.v

\* C6, as stated: for every depth the tree command that is invoked uses the
\* depth clamped to [1, 10], or 3 when none is given.
C6_CommandUsesClampedDepth ==
    (OfTool("tree") /\ Spawned) => last.spawned[1].depth = <<WantedDepth>>

\* C6, amended: on a Unix host the command is "tree -L d" with d the depth
\* clamped to [1, 10], or 3 when none is given; on a Windows host the
\* command carries no depth at all; on no host does a depth outside
\* [1, 10] appear in the command.
C6_ClampedDepthOnUnix ==
    (OfTool("tree") /\ Spawned)
    => LET cmd == last.spawned[1] IN
       /\ ~IS_WINDOWS => cmd.flags = <<"-L">> /\ cmd.depth = <<WantedDepth>>
       /\ IS_WINDOWS => cmd.flags = <<>> /\ cmd.depth = <<>>
       /\ \A i \in DOMAIN cmd.depth : cmd.depth[i] \in 1..10

\* a depth below the range reached the command as 1
C6_Witness ==
    /\ OfTool("tree") /\ Spawned /\ ~IS_WINDOWS
    /\ last.depth.ty = "int" /\ last.depth.v < 1
    /\ last.spawned[1].depth = <<1>>

-----------------------------------------------------------------------------
(* C7 *)

LaunchFailed ==
    Returned /\ last.tool \in {"ls", "tree"} /\ Spawned
    /\ last.run.exc = "FileNotFoundError"

\* C7, as stated: on a launch failure ls and tree return the "command not
\* found ... ensure it is installed" message for the selected command; only
\* tree on Windows returns another hint.
C7_LaunchFailureGenericMessage ==
    LaunchFailed
    => /\ ~last.result.raised
       /\ IF last.tool = "tree" /\ IS_WINDOWS
          THEN last.result # CommandNotFoundMsg("tree")
          ELSE last.result = CommandNotFoundMsg(last.spawned[1].exe)

\* C7, amended: on a launch failure neither tool raises; ls returns the
\* "command not found ... ensure it is installed" message for "dir" on
\* Windows and "ls" elsewhere; tree returns a hint of its own on both
\* hosts: the built-in-command hint on Windows, the package-manager hint
\* elsewhere.
C7_LaunchFailureMessages ==
    LaunchFailed
    => /\ ~last.result.raised
       /\ ErrorString(last.result)
       /\ last.tool = "ls"
          => /\ last.result = CommandNotFoundMsg(IF IS_WINDOWS THEN "dir" ELSE "ls")
             /\ last.result.detail = <<last.spawned[1].exe>>
       /\ last.tool = "tree"
          => last.result = IF IS_WINDOWS THEN TreeWindowsHintMsg ELSE TreeInstallHintMsg

C7_Witness ==
    /\ LaunchFailed /\ last.tool = "tree" /\ ~IS_WINDOWS
    /\ last.result = TreeInstallHintMsg

-----------------------------------------------------------------------------
(* C8 *)

\* the class of a returned message
MessageClass(r) ==
    CASE r = CommandNotFoundMsg("tree") \/ r = CommandNotFoundMsg("ls")
           \/ r = CommandNotFoundMsg("dir") -> "command not found"
      [] r.body = ": Directory not found: '%s'" -> "directory not found"
      [] r.body \in {" executing directory listing command (Code: %d): %s",
                     " executing tree command (Code: %d): %s"} -> "generic"
      [] OTHER -> "other"

\* the class the ordered rules 4, 5, 6 give
RuleClass(rc, stderr) ==
    IF rc = 127 \/ SaysCommandNotFound(stderr) THEN "command not found"
    ELSE IF SaysPathNotFound(stderr) THEN "directory not found"
    ELSE "generic"

\* C8, as stated: both tools classify a non-zero exit by the same ordered
\* rules 4, 5, 6.
C8_SameOrderedRules ==
    (Returned /\ last.tool \in {"ls", "tree"} /\ RanToNonZero)
    => MessageClass(last.result) = RuleClass(last.run.rc, last.run.stderr)

\* the stderr a generic message quotes
QuotedStderr(stderr) ==
    IF stderr = <<>> THEN <<"(No stderr)">>
    ELSE SubSeq(stderr,
                CHOOSE i \in 1..(Len(stderr) + 1) :
                    /\ \A j \in 1..(i - 1) : stderr[j] = WS
                    /\ i <= Len(stderr) => stderr[i] # WS,
                Len(stderr)
                - (CHOOSE k \in 0..Len(stderr) :
                      /\ \A j \in 0..(k - 1) : stderr[Len(stderr) - j] = WS
                      /\ k < Len(stderr) => stderr[Len(stderr) - k] # WS))

\* C8, amended: each tool has two of the three rules.  tree: exit code 127
\* or a "command not found" stderr gives the command-not-found message,
\* anything else the generic message (never "Directory not found").  ls: a
\* stderr with a not-found-path marker, in any letter case, gives
\* "Directory not found: '<path>'" whatever the exit code, anything else
\* the generic message (never the command-not-found message).  The generic
\* message carries the exit code and the stripped stderr, or "(No stderr)"
\* when stderr is empty.
C8_RulesPerTool ==
    (Returned /\ last.tool \in {"ls", "tree"} /\ RanToNonZero)
    => LET rc == last.run.rc
           stderr == last.run.stderr
           class == MessageClass(last.result)
       IN /\ ErrorString(last.result)
          /\ last.tool = "tree"
             => class = IF rc = 127 \/ SaysCommandNotFound(stderr)
                        THEN "command not found" ELSE "generic"
          /\ last.tool = "ls"
             => /\ class = IF SaysPathNotFound(stderr)
                           THEN "directory not found" ELSE "generic"
                /\ class = "directory not found"
                   => last.result.path = last.spawned[1].target
          /\ class = "generic"
             => /\ last.result.code = rc
                /\ last.result.detail = QuotedStderr(stderr)

\* ls met exit code 127 with a not-found-path stderr and reported the path
C8_Witness ==
    /\ OfTool("ls") /\ RanToNonZero
    /\ last.run.rc = 127
    /\ SaysPathNotFound(last.run.stderr)
    /\ MessageClass(last.result) = "directory not found"

-----------------------------------------------------------------------------
(* C9 *)

\* the call passed the guard and nothing on the way to its target is a file
CreationPermitted ==
    /\ OfTool("create_directory")
    /\ last.syscalls # <<>>
    /\ \A i \in 1..Len(last.target) : Prefix(last.target, i) \notin fs.files

\* C9: whatever another process creates on the target's path while
\* execute() runs, the call returns "Successfully created" or "already
\* exists", never an error, and the target is a directory afterwards.
C9_ConcurrentCreationIsSuccess ==
    CreationPermitted
    => /\ \/ last.result = CreatedMsg(last.path.s)
          \/ last.result = AlreadyExistsMsg(last.path.s)
       /\ ~ErrorString(last.result)
       /\ isdir(fs, last.target)

\* the other process made the target after execute() saw it missing, and
\* execute() still reported success
C9_Witness ==
    /\ CreationPermitted
    /\ last.target \in otherMade
    /\ last.syscalls = <<"exists", "makedirs">>
    /\ last.result = CreatedMsg(last.path.s)

-----------------------------------------------------------------------------
(* C10 *)

\* C10: in ls and in tree the path is validated before a command is built,
\* so no command is spawned with a target that has a ".." segment.
C10_NoParentSegmentSpawned ==
    (Returned /\ last.tool \in {"ls", "tree"} /\ Spawned)
    => ~HasParentSegment(last.spawned[1].target)

====
